---------------------------- MODULE Spec2Model ----------------------------
(***************************************************************************)
(* Model of the assembly explorer of src/src/extension.ts: the MSVC        *)
(* listing parser and assembler of _decorateMSVC, and the debounced        *)
(* recompilation driver of _documentChanged / _debounce.                   *)
(*                                                                         *)
(* Strings are sequences of one-character strings, so that startsWith,     *)
(* endsWith, trim, the regular expression line_re and parseInt are         *)
(* computed the way the JavaScript computes them.                          *)
(***************************************************************************)
EXTENDS Integers, Sequences, FiniteSets, TLC

(***************************************************************************)
(* Bounds of the model.                                                    *)
(***************************************************************************)
\* largest number of lines of the edited document
MaxDocLines == 2
\* largest number of instruction lines one parse collects
MaxCollected == 2
\* largest number of change events of the documents
MaxTriggers == 2

\* the delay of the timer of _debounce, in ms (line 234)
DebounceDelay == 1000

(***************************************************************************)
(* JavaScript string primitives.                                           *)
(***************************************************************************)
startsWith(s, p) == Len(s) >= Len(p) /\ SubSeq(s, 1, Len(p)) = p

endsWith(s, p) == Len(s) >= Len(p) /\ SubSeq(s, Len(s) - Len(p) + 1, Len(s)) = p

WhiteSpace == {" ", "\t", "\r", "\n"}

Digits == {"0", "1", "2", "3", "4", "5", "6", "7", "8", "9"}

RECURSIVE trimStart(_)
trimStart(s) ==
  IF s # <<>> /\ Head(s) \in WhiteSpace THEN trimStart(Tail(s)) ELSE s

RECURSIVE trimEnd(_)
trimEnd(s) ==
  IF s # <<>> /\ s[Len(s)] \in WhiteSpace
  THEN trimEnd(SubSeq(s, 1, Len(s) - 1))
  ELSE s

trim(s) == trimEnd(trimStart(s))

\* the first index >= i of s whose character is not in class (Len(s)+1 if none)
RECURSIVE skip(_, _, _)
skip(s, i, class) ==
  IF i <= Len(s) /\ s[i] \in class THEN skip(s, i + 1, class) ELSE i

DigitVal(c) ==
  CASE c = "0" -> 0 [] c = "1" -> 1 [] c = "2" -> 2 [] c = "3" -> 3
    [] c = "4" -> 4 [] c = "5" -> 5 [] c = "6" -> 6 [] c = "7" -> 7
    [] c = "8" -> 8 [] c = "9" -> 9

\* parseInt of a string of decimal digits
RECURSIVE parseInt(_)
parseInt(ds) ==
  IF ds = <<>> THEN 0
  ELSE 10 * parseInt(SubSeq(ds, 1, Len(ds) - 1)) + DigitVal(ds[Len(ds)])

\* line_re = /^;\s+(\d+)\s+:/ : the captured digits, or <<>> when the line
\* does not match
line_re(line) ==
  IF ~startsWith(line, <<";">>) THEN <<>>
  ELSE LET a == skip(line, 2, WhiteSpace)
           b == skip(line, a, Digits)
           c == skip(line, b, WhiteSpace)
       IN  IF a > 2 /\ b > a /\ c > b /\ c <= Len(line) /\ line[c] = ":"
           THEN SubSeq(line, a, b - 1)
           ELSE <<>>

\* Array.prototype.join
RECURSIVE join(_, _)
join(strs, sep) ==
  IF strs = <<>> THEN <<>>
  ELSE IF Len(strs) = 1 THEN strs[1]
  ELSE strs[1] \o sep \o join(Tail(strs), sep)

Min(a, b) == IF a < b THEN a ELSE b

(***************************************************************************)
(* The listing lines the model feeds to the parser.                        *)
(***************************************************************************)
\* tmppath, the temporary copy the compiler is given (line 280)
tmppath == <<".", "a", "s", "m", "e", "-", "f", ".", "c">>

\* another file the listing may echo (a header)
otherpath == <<"f", ".", "h">>

FilePrefix == <<";", " ", "F", "i", "l", "e", " ">>

TEXT == <<"_", "T", "E", "X", "T">>

FileTarget == FilePrefix \o tmppath

\* the same directive as a line of a CRLF listing split at "\n"
FileTargetCR == FilePrefix \o tmppath \o <<"\r">>

FileOther == FilePrefix \o otherpath

SegmentOpen == TEXT \o <<"\t", "S", "E", "G", "M", "E", "N", "T">>

SegmentEnds == TEXT \o <<"\t", "E", "N", "D", "S">>

ProcEnd == <<"f", "\t", "E", "N", "D", "P">>

ProcBegin == <<"f", "\t", "P", "R", "O", "C">>

\* "; <digits> :"
Directive(ds) == <<";", " ">> \o ds \o <<" ", ":">>

\* a directive whose number is not an integer: "; x1 :"
BadDirective == <<";", " ", "x", "1", " ", ":">>

\* an indented line of white space only
Blank == <<"\t", " ">>

Mov == <<"\t", "m", "o", "v">>

Ret == <<"\t", "r", "e", "t">>

Instructions == {Mov, Ret}

DigitOf(n) ==
  CASE n = 0 -> "0" [] n = 1 -> "1" [] n = 2 -> "2" [] n = 3 -> "3"
    [] n = 4 -> "4" [] n = 5 -> "5" [] n = 6 -> "6" [] n = 7 -> "7"
    [] n = 8 -> "8" [] n = 9 -> "9"

\* the numerals of the line-number directives: 0 .. MaxDocLines, one with a
\* leading zero, and 10, which is beyond every document of the model
Numerals ==
  {<<DigitOf(n)>> : n \in 0..MaxDocLines} \cup {<<"0", "1">>, <<"1", "0">>}

Lines ==
  {FileTarget, FileTargetCR, FileOther, SegmentOpen, SegmentEnds, ProcEnd,
   ProcBegin, BadDirective, Blank}
    \cup Instructions \cup {Directive(ds) : ds \in Numerals}

(***************************************************************************)
(* Map<number, string[]> (line 312): a JavaScript Map iterates in          *)
(* insertion order, so it is a sequence of [key, asms] entries.            *)
(***************************************************************************)
MapKeys(m) == {m[i].key : i \in 1..Len(m)}

MapHas(m, k) == \E i \in 1..Len(m) : m[i].key = k

MapGet(m, k) == m[CHOOSE i \in 1..Len(m) : m[i].key = k].asms

\* Map.prototype.set: replaces the value of a present key in place, appends
\* a new key
MapSet(m, k, v) ==
  IF MapHas(m, k)
  THEN [i \in 1..Len(m) |-> IF m[i].key = k THEN [key |-> k, asms |-> v] ELSE m[i]]
  ELSE Append(m, [key |-> k, asms |-> v])

\* Map.prototype.get, with no lines for undefined
asm_lines(m, k) == IF MapHas(m, k) THEN MapGet(m, k) ELSE <<>>

\* the number of instruction lines a mapping holds
RECURSIVE Collected(_)
Collected(m) == IF m = <<>> THEN 0 ELSE Len(Head(m).asms) + Collected(Tail(m))

(***************************************************************************)
(* The parser of _decorateMSVC (lines 308-375).                            *)
(***************************************************************************)
\* lines 308-313
InitialState ==
  [in_file |-> FALSE, in_text |-> FALSE, current_line |-> 0, line_content |-> <<>>]

\* lines 320-329: a '; File ' line
FileDirectiveNoReset(st, line) ==
  IF trim(line) = FilePrefix \o tmppath
  THEN [st EXCEPT !.in_file = TRUE]
  ELSE st

FileDirective(st, line) ==
  IF trim(line) = FilePrefix \o tmppath
  THEN [st EXCEPT !.in_file = TRUE]
  ELSE [st EXCEPT !.in_file = FALSE, !.in_text = FALSE, !.current_line = 0]

\* lines 332-335
IsSegmentOpen(line) == startsWith(line, TEXT) /\ endsWith(line, <<"S", "E", "G", "M", "E", "N", "T">>)

\* line 336
IsSegmentClose(line) ==
  \/ endsWith(line, <<"E", "N", "D", "P">>)
  \/ startsWith(line, TEXT) /\ endsWith(line, <<"E", "N", "D", "S">>)

\* lines 338-340, without line 337
SegmentCloseKeepsFile(st) ==
  [st EXCEPT !.in_text = FALSE, !.current_line = 0]

\* lines 337-340
SegmentClose(st) ==
  [st EXCEPT !.in_file = FALSE, !.in_text = FALSE, !.current_line = 0]

\* lines 345-353: a line-number directive whose digits are ds
LineDirectiveNoHas(st, ds, lineCount) ==
  LET line == parseInt(ds)
  IN  IF line > lineCount
      THEN [st EXCEPT !.current_line = 0]
      ELSE [st EXCEPT !.current_line = line]

LineDirectiveNoRange(st, ds, lineCount) ==
  LET line == parseInt(ds)
  IN  IF MapHas(st.line_content, line)
      THEN [st EXCEPT !.current_line = 0]
      ELSE [st EXCEPT !.current_line = line]

LineDirective(st, ds, lineCount) ==
  LET line == parseInt(ds)
  IN  IF line > lineCount \/ MapHas(st.line_content, line)
      THEN [st EXCEPT !.current_line = 0]
      ELSE [st EXCEPT !.current_line = line]

\* lines 342-357: a line that starts with ';'
CommentLineResets(st, line, lineCount) ==
  IF line_re(line) # <<>>
  THEN LineDirective(st, line_re(line), lineCount)
  ELSE [st EXCEPT !.current_line = 0]

CommentLine(st, line, lineCount) ==
  IF line_re(line) # <<>>
  THEN LineDirective(st, line_re(line), lineCount)
  ELSE st

\* lines 367-374: an indented, non-blank line
AppendStepUnguarded(st, line) ==
  IF ~MapHas(st.line_content, st.current_line)
  THEN [st EXCEPT !.line_content = MapSet(@, st.current_line, <<line>>)]
  ELSE [st EXCEPT !.line_content =
          MapSet(@, st.current_line, Append(MapGet(@, st.current_line), line))]

AppendStep(st, line) ==
  IF st.current_line # 0
  THEN IF ~MapHas(st.line_content, st.current_line)
       THEN [st EXCEPT !.line_content = MapSet(@, st.current_line, <<line>>)]
       ELSE [st EXCEPT !.line_content =
               MapSet(@, st.current_line, Append(MapGet(@, st.current_line), line))]
  ELSE st

\* lines 319-375 without the return of lines 330-331
ProcessLineNoFileGate(st, line, lineCount) ==
  IF startsWith(line, FilePrefix) THEN FileDirective(st, line)
  ELSE IF IsSegmentOpen(line) THEN [st EXCEPT !.in_text = TRUE]
  ELSE IF IsSegmentClose(line) THEN SegmentClose(st)
  ELSE IF startsWith(line, <<";">>) THEN CommentLine(st, line, lineCount)
  ELSE IF trim(line) = <<>> THEN st
  ELSE IF ~startsWith(line, <<"\t">>) THEN [st EXCEPT !.current_line = 0]
  ELSE AppendStep(st, line)

\* lines 319-375 without the reset of lines 362-366
ProcessLineNoTextReset(st, line, lineCount) ==
  IF startsWith(line, FilePrefix) THEN FileDirective(st, line)
  ELSE IF ~st.in_file THEN st
  ELSE IF IsSegmentOpen(line) THEN [st EXCEPT !.in_text = TRUE]
  ELSE IF IsSegmentClose(line) THEN SegmentClose(st)
  ELSE IF startsWith(line, <<";">>) THEN CommentLine(st, line, lineCount)
  ELSE IF trim(line) = <<>> THEN st
  ELSE IF ~startsWith(line, <<"\t">>) THEN st
  ELSE AppendStep(st, line)

\* lines 319-375: the callback of each(), for one line of the listing and
\* the document's line count at that moment
ProcessLine(st, line, lineCount) ==
  IF startsWith(line, FilePrefix) THEN FileDirective(st, line)
  ELSE IF ~st.in_file THEN st
  ELSE IF IsSegmentOpen(line) THEN [st EXCEPT !.in_text = TRUE]
  ELSE IF IsSegmentClose(line) THEN SegmentClose(st)
  ELSE IF startsWith(line, <<";">>) THEN CommentLine(st, line, lineCount)
  ELSE IF trim(line) = <<>> THEN st
  ELSE IF ~startsWith(line, <<"\t">>) THEN [st EXCEPT !.current_line = 0]
  ELSE AppendStep(st, line)

(***************************************************************************)
(* The assembler of _decorateMSVC (lines 384-394).                         *)
(***************************************************************************)
\* line 27
COLORS ==
  <<"#fbb4ae", "#b3cde3", "#ccebc5", "#decbe4", "#fed9a6", "#ffffcc",
    "#e5d8bd", "#fddaec">>

\* TextDocument.lineAt(i).text for a 0-based i; vscode throws on an index
\* outside the document
OutOfBounds == "<illegal line>"

lineAt(doc, i) == IF i \in 0..(Len(doc) - 1) THEN doc[i + 1] ELSE OutOfBounds

\* lines 385-393 with the line itself as the palette index
EntryColorByLine(e, doc) ==
  [line |-> e.key,
   assembly |-> join(e.asms, <<"\r", "\n">>),
   code |-> lineAt(doc, Min(e.key, Len(doc)) - 1),
   color |-> COLORS[(e.key % Len(COLORS)) + 1]]

\* lines 385-393: the entry of one [lineno, asms] pair
Entry(e, doc) ==
  [line |-> e.key,
   assembly |-> join(e.asms, <<"\r", "\n">>),
   code |-> lineAt(doc, Min(e.key, Len(doc)) - 1),
   color |-> COLORS[((e.key * 11) % Len(COLORS)) + 1]]

\* lines 179-184: the stylesheet of the view; class 'bgc-<k>' has background
\* colors[k], counted from 0
classes == [k \in 0..(Len(COLORS) - 1) |-> COLORS[k + 1]]

\* line 199: the number k of the class 'bgc-<k>' of an item's assembly lines
cls(item) == (item.line * 11) % Len(COLORS)

\* Array.prototype.sort((a, b) => a.line - b.line): a stable insertion sort
RECURSIVE insert(_, _)
insert(sorted, x) ==
  IF sorted = <<>> THEN <<x>>
  ELSE IF x.line - sorted[Len(sorted)].line >= 0 THEN Append(sorted, x)
  ELSE Append(insert(SubSeq(sorted, 1, Len(sorted) - 1), x), sorted[Len(sorted)])

RECURSIVE sort(_)
sort(xs) ==
  IF xs = <<>> THEN <<>>
  ELSE insert(sort(SubSeq(xs, 1, Len(xs) - 1)), xs[Len(xs)])

\* lines 384-394
AssembleUnsorted(m, doc) == [i \in 1..Len(m) |-> Entry(m[i], doc)]

Assemble(m, doc) == sort([i \in 1..Len(m) |-> Entry(m[i], doc)])

(***************************************************************************)
(* State.                                                                  *)
(***************************************************************************)
VARIABLES
  doc,            \* the live TextDocument: its lines' texts
  listing,        \* this._listing (line 56)
  decorations,    \* what editor.setDecorations was last given (line 456)
  statusMessage,  \* this._statusMessage (line 239)
  state,          \* the parser state of one _decorateMSVC call (line 308)
  pc,             \* where that call is: "reading", "done", "read_error", "threw"
  result,         \* what that call returned
  last_file,      \* history: what the last '; File ' line named
  last_dir,       \* history: what became of the last line-number directive
  last_insn,      \* history: whether the last line read was an instruction
  saw_malformed,  \* history: a malformed directive was read in the target file
  saw_target,     \* history: a '; File ' line naming tmppath was read
  last_kind,      \* history: whether the last line read, in the target file,
                  \* was a segment close, a plain comment or other
                  \* unindented text
  first_epoch,    \* history: "unseen" until the first line-number directive
                  \* for source line 1 is read in the target file, "active"
                  \* while the lines after it are read under it, then "over"
  pending,        \* per file: the change events whose handler has not
                  \* reached _debounce yet
  ntrig,          \* the calls of _debounce so far; each is called by its number
  timer,          \* this._debouncers.get('regenerate'): the call whose timer
                  \* is pending, or 0
  corr,           \* per call of _debounce: the file it is for, the time in
                  \* ms its timer has run, where its action is, the text it
                  \* wrote to tmppath, the directory it saved, what cl.exe
                  \* returned, the listing and the line count it read, and
                  \* the mapping it parsed
  asmfile,        \* the listing at asmpath
  cwd,            \* process.cwd()
  published_by    \* history: the call whose result this._listing holds, or 0

pvars == <<state, pc, result, last_file, last_dir, last_insn, saw_malformed,
           saw_target, last_kind, first_epoch>>

shared == <<doc, listing, decorations, statusMessage>>

dvars == <<pending, ntrig, timer, corr, asmfile, cwd, published_by>>

vars == <<doc, listing, decorations, statusMessage, state, pc, result,
          last_file, last_dir, last_insn, saw_malformed, saw_target,
          last_kind, first_epoch, pending, ntrig,
          timer, corr, asmfile, cwd, published_by>>

\* Maybe<T> (line 24)
Null == [null |-> TRUE, value |-> <<>>]

Some(v) == [null |-> FALSE, value |-> v]

\* the documents of the parser's specification: the first lines of a text
\* whose lines all differ, so that lineAt(i).text tells which line it read
Poem == <<"a", "b", "c", "d", "e", "f", "g", "h">>

PDocs == {SubSeq(Poem, 1, n) : n \in 1..MaxDocLines}

\* the documents of the driver's specification: those, and one whose first
\* line has another text; a TextDocument has at least one line
Docs == PDocs \cup {<<"b">>}

(***************************************************************************)
(* What the listing said, read off the text of its lines.                  *)
(***************************************************************************)
\* the path a '; File ' line names
NamedFile(l) == trim(SubSeq(l, Len(FilePrefix) + 1, Len(l)))

IsFileLine(l) == startsWith(l, FilePrefix)

\* a line of the form "; <digits> :"
IsLineDirective(l) == ~IsFileLine(l) /\ line_re(l) # <<>>

\* an indented line that is not blank
IsInstruction(l) == startsWith(l, <<"\t">>) /\ trim(l) # <<>>

\* a ';' line with a number field that is not a string of digits
IsMalformedDirective(l) ==
  /\ startsWith(l, <<";">>) /\ ~IsFileLine(l) /\ ~IsSegmentClose(l)
  /\ line_re(l) = <<>>

\* a non-blank line that does not lead with a tabstop and is no '; File '
\* line, segment marker or line-number directive
IsPlainLine(l) ==
  /\ trim(l) # <<>>
  /\ ~startsWith(l, <<"\t">>)
  /\ ~IsFileLine(l) /\ ~IsSegmentOpen(l) /\ ~IsSegmentClose(l)
  /\ ~IsLineDirective(l)

\* what the text of a line-number directive says of its number: beyond the
\* document ("range"), a line that already has an entry ("duplicate"), both
\* (the document shrank), or a new line of the document ("new")
DirectiveFate(st, l, lineCount) ==
  LET n == parseInt(line_re(l))
  IN  IF n > lineCount
      THEN (IF MapHas(st.line_content, n) THEN "both" ELSE "range")
      ELSE (IF MapHas(st.line_content, n) THEN "duplicate" ELSE "new")

(***************************************************************************)
(* What the then-callback of _documentChanged shows (lines 451-472).       *)
(***************************************************************************)
\* lines 457-470: one decoration; its range is a 0-based line index
Decoration(asm, d) ==
  [hoverMessage |-> asm.assembly,
   backgroundColor |-> asm.color,
   range |-> Min(asm.line, Len(d)) - 1]

Decorations(l, d) == [i \in 1..Len(l) |-> Decoration(l[i], d)]

(***************************************************************************)
(* One call of _decorateMSVC from the compiler's return (line 308) to its  *)
(* own (line 394), while the user edits the document.                      *)
(***************************************************************************)
\* the documents shown in editors: the one of doc, and another one
Files == {"f.c", "g.c"}

\* the working directory the extension host starts in
StartDir == "workspace"

\* info.directory of the compilation info of a file (line 297)
directory(f) == IF f = "f.c" THEN "build/f" ELSE "build/g"

\* a call of _debounce that has not been made
NoCall ==
  [phase |-> "none", file |-> "f.c", age |-> 0, text |-> <<>>, cd |-> StartDir,
   retc |-> -1,
   asm |-> <<>>, lines |-> 0, lc |-> <<>>]

\* no call of _debounce has been made
Idle ==
  /\ pending = [f \in Files |-> 0]
  /\ ntrig = 0
  /\ timer = 0
  /\ corr = [c \in 1..MaxTriggers |-> NoCall]
  /\ asmfile = <<>>
  /\ cwd = StartDir
  /\ published_by = 0

PInit ==
  /\ Idle
  /\ doc \in PDocs
  /\ listing = Null
  /\ decorations = <<>>
  /\ statusMessage = "Recompiling..."
  /\ state = InitialState
  /\ pc = "reading"
  /\ result = Null
  /\ last_file = "none"
  /\ last_dir = "none"
  /\ last_insn = "none"
  /\ saw_malformed = FALSE
  /\ saw_target = FALSE
  /\ last_kind = "none"
  /\ first_epoch = "unseen"

\* lines 319-375: the stream hands the next line of the listing to the callback
ReadLine(l) ==
  /\ pc = "reading"
  /\ Collected(ProcessLine(state, l, Len(doc)).line_content) <= MaxCollected
  /\ state' = ProcessLine(state, l, Len(doc))
  /\ last_file' =
       IF IsFileLine(l)
       THEN (IF NamedFile(l) = tmppath THEN "target" ELSE "other")
       ELSE last_file
  /\ last_dir' = IF IsLineDirective(l) THEN DirectiveFate(state, l, Len(doc)) ELSE last_dir
  /\ last_insn' =
       IF ~IsInstruction(l) THEN "none"
       ELSE IF ProcessLine(state, l, Len(doc)).line_content # state.line_content
       THEN "collected"
       ELSE "dropped"
  /\ saw_malformed' = (saw_malformed \/ (state.in_file /\ IsMalformedDirective(l)))
  /\ saw_target' = (saw_target \/ (IsFileLine(l) /\ NamedFile(l) = tmppath))
  /\ last_kind' =
       IF state.in_file /\ ~IsFileLine(l) /\ IsSegmentClose(l) THEN "close"
       ELSE IF state.in_file /\ IsPlainLine(l)
       THEN (IF startsWith(l, <<";">>) THEN "comment" ELSE "text")
       ELSE "none"
  /\ first_epoch' =
       IF /\ first_epoch = "unseen"
          /\ state.in_file
          /\ IsLineDirective(l)
          /\ parseInt(line_re(l)) = 1
       THEN "active"
       ELSE IF /\ first_epoch = "active"
               /\ ~IsLineDirective(l)
               /\ ProcessLine(state, l, Len(doc)).current_line = 1
       THEN "active"
       ELSE IF first_epoch = "unseen" THEN "unseen"
       ELSE "over"
  /\ UNCHANGED <<pc, result, doc, listing, decorations, statusMessage>>
  /\ UNCHANGED dvars

\* lines 381-394 and 451-472: the stream ends, the mapping is assembled and
\* returned, and the then-callback publishes it; lineAt throws on an index
\* outside the document, which rejects the promise (line 473)
Complete ==
  /\ pc = "reading"
  /\ LET l == Assemble(state.line_content, doc)
     IN  IF \E i \in 1..Len(l) : l[i].code = OutOfBounds
         THEN /\ pc' = "threw"
              /\ UNCHANGED <<result, listing, decorations>>
         ELSE /\ pc' = "done"
              /\ result' = Some(l)
              /\ listing' = Some(l)
              /\ decorations' = Decorations(l, doc)
  /\ UNCHANGED <<doc, statusMessage, state, last_file, last_dir, last_insn, saw_malformed>>
  /\ UNCHANGED <<saw_target, last_kind, first_epoch>>
  /\ UNCHANGED dvars

\* lines 377-380: reading the listing fails
ReadError ==
  /\ pc = "reading"
  /\ pc' = "read_error"
  /\ UNCHANGED <<doc, listing, decorations, statusMessage, state, result,
                 last_file, last_dir, last_insn, saw_malformed>>
  /\ UNCHANGED <<saw_target, last_kind, first_epoch>>
  /\ UNCHANGED dvars

\* the user adds or removes lines of the document between two chunks of the
\* listing
EditDocument ==
  /\ pc = "reading"
  /\ doc' \in PDocs \ {doc}
  /\ UNCHANGED <<listing, decorations, statusMessage, state, pc, result,
                 last_file, last_dir, last_insn, saw_malformed>>
  /\ UNCHANGED <<saw_target, last_kind, first_epoch>>
  /\ UNCHANGED dvars

PNext ==
  \/ \E l \in Lines : ReadLine(l)
  \/ Complete
  \/ ReadError
  \/ EditDocument

Spec == PInit /\ [][PNext]_vars

(***************************************************************************)
(* The driver: _documentChanged (lines 404-477), _debounce (lines 222-237) *)
(* and the calls of _decorateMSVC they start, for one C/C++ document shown *)
(* in an editor and compiled by cl.exe.  A call of _decorateMSVC reads its *)
(* listing in one chunk here; Spec reads it line by line.                  *)
(***************************************************************************)
\* what cl.exe may write to asmpath for a source of n lines: an instruction
\* per line, the lines in descending order
RECURSIVE Body(_)
Body(n) ==
  IF n = 0 THEN <<>>
  ELSE <<Directive(<<DigitOf(n)>>), Mov>> \o Body(n - 1)

ListingOf(text) ==
  <<FileOther, Directive(<<"1">>), Ret, FileTarget, SegmentOpen>>
    \o Body(Len(text)) \o <<ProcEnd>>

\* lines 316-375 over a whole listing
RECURSIVE ParseAll(_, _, _)
ParseAll(st, lines, lineCount) ==
  IF lines = <<>> THEN st
  ELSE ParseAll(ProcessLine(st, Head(lines), lineCount), Tail(lines), lineCount)

\* the calls of _decorateMSVC that have started and not returned
InFlight == {c \in 1..MaxTriggers : corr[c].phase \in {"compiling", "reading", "read"}}

DInit ==
  /\ Idle
  /\ doc \in Docs
  /\ listing = Null
  /\ decorations = <<>>
  /\ statusMessage = "Inactive"
  /\ state = InitialState
  /\ pc = "idle"
  /\ result = Null
  /\ last_file = "none"
  /\ last_dir = "none"
  /\ last_insn = "none"
  /\ saw_malformed = FALSE
  /\ saw_target = FALSE
  /\ last_kind = "none"
  /\ first_epoch = "unseen"

\* the handlers that have not reached _debounce yet
Pending == pending["f.c"] + pending["g.c"]

\* the user changes the document; onDidChangeTextDocument calls
\* _documentChanged, which runs up to its await of the compilation info
\* (lines 404-423)
ChangeDocument ==
  /\ Pending + ntrig < MaxTriggers
  /\ doc' \in Docs \ {doc}
  /\ pending' = [pending EXCEPT !["f.c"] = @ + 1]
  /\ UNCHANGED <<listing, decorations, statusMessage, ntrig, timer, corr,
                 asmfile, published_by>>
  /\ UNCHANGED cwd
  /\ UNCHANGED pvars

\* the user changes the other document, a C/C++ document in a visible
\* editor with compilation info too
ChangeOther ==
  /\ Pending + ntrig < MaxTriggers
  /\ pending' = [pending EXCEPT !["g.c"] = @ + 1]
  /\ UNCHANGED <<doc, listing, decorations, statusMessage, ntrig, timer,
                 corr, asmfile, published_by>>
  /\ UNCHANGED cwd
  /\ UNCHANGED pvars

\* time passes, by half the delay of the timer: every pending timer has run
\* that much longer.  The program reads no clock, so that time is followed
\* only while a timer is pending and not yet due.
Tick ==
  /\ \E c \in 1..MaxTriggers : corr[c].phase = "timer" /\ corr[c].age < DebounceDelay
  /\ corr' = [c \in 1..MaxTriggers |->
               IF corr[c].phase = "timer"
               THEN [corr[c] EXCEPT !.age = @ + (DebounceDelay \div 2)]
               ELSE corr[c]]
  /\ UNCHANGED <<doc, listing, decorations, statusMessage, pending, ntrig,
                 timer, asmfile, published_by>>
  /\ UNCHANGED cwd
  /\ UNCHANGED pvars

\* lines 222-226 and 235 without the clearTimeout of lines 224-226
DebounceNoClear(f) ==
  /\ pending[f] > 0
  /\ pending' = [pending EXCEPT ![f] = @ - 1]
  /\ ntrig' = ntrig + 1
  /\ statusMessage' = "Recompiling..."
  /\ timer' = ntrig + 1
  /\ corr' = [c \in 1..MaxTriggers |->
               IF c = ntrig + 1
               THEN [corr[c] EXCEPT !.phase = "timer", !.file = f, !.age = 0]
               ELSE corr[c]]
  /\ UNCHANGED <<doc, listing, decorations, asmfile, published_by>>
  /\ UNCHANGED cwd
  /\ UNCHANGED pvars

\* lines 427-447 and 222-237: the handler of a change of file f goes on and
\* calls _debounce with the id 'regenerate' (line 435), which clears the
\* pending timer of that id (its promise never settles) and sets a new one
Debounce(f) ==
  /\ pending[f] > 0
  /\ pending' = [pending EXCEPT ![f] = @ - 1]
  /\ ntrig' = ntrig + 1
  /\ statusMessage' = "Recompiling..."
  /\ timer' = ntrig + 1
  /\ corr' = [c \in 1..MaxTriggers |->
               IF c = ntrig + 1
               THEN [corr[c] EXCEPT !.phase = "timer", !.file = f, !.age = 0]
               ELSE IF c = timer THEN [corr[c] EXCEPT !.phase = "cleared"]
               ELSE corr[c]]
  /\ UNCHANGED <<doc, listing, decorations, asmfile, published_by>>
  /\ UNCHANGED cwd
  /\ UNCHANGED pvars

\* lines 228-234 and 252-298: the timer of call c fires, not before it has
\* run for its delay, and the action starts _decorateMSVC, which writes
\* doc.getText() to tmppath, saves process.cwd() in cd, changes into
\* info.directory (lines 294 and 297 run with no await between them) and
\* starts cl.exe.  The action of a call for the other document
\* works on that document, its tmppath, its asmpath and its editor, and in
\* the same process; it is followed to the return of its compiler only.
TimerFires(c) ==
  /\ corr[c].phase = "timer"
  /\ corr[c].age >= DebounceDelay
  /\ corr' = [corr EXCEPT ![c] =
               IF @.file = "f.c"
               THEN [@ EXCEPT !.phase = "compiling", !.text = doc, !.cd = cwd]
               ELSE [@ EXCEPT !.phase = "elsewhere", !.cd = cwd]]
  /\ cwd' = directory(corr[c].file)
  /\ timer' = IF timer = c THEN 0 ELSE timer
  /\ UNCHANGED <<doc, listing, decorations, statusMessage, pending, ntrig,
                 asmfile, published_by>>
  /\ UNCHANGED pvars

\* lines 298-316 without the return of lines 304-307
CompileErrorIgnored(c) ==
  /\ corr[c].phase = "compiling"
  /\ corr' = [corr EXCEPT ![c] = [@ EXCEPT !.phase = "reading", !.retc = 1]]
  /\ UNCHANGED <<doc, listing, decorations, statusMessage, pending, ntrig,
                 timer, asmfile, published_by>>
  /\ cwd' = corr[c].cd
  /\ UNCHANGED pvars

\* lines 298-307 and 451-453: cl.exe fails; _decorateMSVC returns null and
\* the then-callback does nothing with it
CompileError(c) ==
  /\ corr[c].phase = "compiling"
  /\ statusMessage' = "Compile error"
  /\ corr' = [corr EXCEPT ![c] = [@ EXCEPT !.phase = "null", !.retc = 1]]
  /\ UNCHANGED <<doc, listing, decorations, pending, ntrig, timer, asmfile,
                 published_by>>
  /\ cwd' = corr[c].cd
  /\ UNCHANGED pvars

\* lines 298-316: cl.exe has written the listing of the text it was given to
\* asmpath and returns 0; the call starts to read asmpath
CompileDone(c) ==
  /\ corr[c].phase = "compiling"
  /\ asmfile' = ListingOf(corr[c].text)
  /\ corr' = [corr EXCEPT ![c] = [@ EXCEPT !.phase = "reading", !.retc = 0]]
  /\ UNCHANGED <<doc, listing, decorations, statusMessage, pending, ntrig,
                 timer, published_by>>
  /\ cwd' = corr[c].cd
  /\ UNCHANGED pvars

\* lines 298-301: the compiler of a call for the other document returns and
\* the finally block restores the directory that call saved
OtherReturns(c) ==
  /\ corr[c].phase = "elsewhere"
  /\ corr' = [corr EXCEPT ![c] = [@ EXCEPT !.phase = "returned"]]
  /\ cwd' = corr[c].cd
  /\ UNCHANGED <<doc, listing, decorations, statusMessage, pending, ntrig,
                 timer, asmfile, published_by>>
  /\ UNCHANGED pvars

\* lines 308-313 with the mapping of the call before
StartStateShared(c) ==
  IF c > 1 THEN [InitialState EXCEPT !.line_content = corr[c - 1].lc]
  ELSE InitialState

\* lines 308-313: the parser state call c starts from
StartState(c) == InitialState

\* lines 316-375: the stream delivers the listing at asmpath
ReadListing(c) ==
  /\ corr[c].phase = "reading"
  /\ corr' = [corr EXCEPT ![c] =
               [@ EXCEPT !.phase = "read",
                         !.asm = asmfile,
                         !.lines = Len(doc),
                         !.lc = ParseAll(StartState(c), asmfile, Len(doc)).line_content]]
  /\ UNCHANGED <<doc, listing, decorations, statusMessage, pending, ntrig,
                 timer, asmfile, published_by>>
  /\ UNCHANGED cwd
  /\ UNCHANGED pvars

\* lines 381-394 and 451-472: the stream ends, _decorateMSVC returns the
\* sorted entries and the then-callback publishes them
Finish(c) ==
  /\ corr[c].phase = "read"
  /\ LET l == Assemble(corr[c].lc, doc)
     IN  IF \E i \in 1..Len(l) : l[i].code = OutOfBounds
         THEN /\ corr' = [corr EXCEPT ![c] = [@ EXCEPT !.phase = "threw"]]
              /\ UNCHANGED <<listing, decorations, published_by>>
         ELSE /\ corr' = [corr EXCEPT ![c] = [@ EXCEPT !.phase = "applied"]]
              /\ listing' = Some(l)
              /\ decorations' = Decorations(l, doc)
              /\ published_by' = c
  /\ UNCHANGED <<doc, statusMessage, pending, ntrig, timer, asmfile>>
  /\ UNCHANGED cwd
  /\ UNCHANGED pvars

DNext ==
  \/ ChangeDocument
  \/ ChangeOther
  \/ Tick
  \/ \E f \in Files : Debounce(f)
  \/ \E c \in 1..MaxTriggers : TimerFires(c)
  \/ \E c \in 1..MaxTriggers : CompileError(c)
  \/ \E c \in 1..MaxTriggers : CompileDone(c)
  \/ \E c \in 1..MaxTriggers : OtherReturns(c)
  \/ \E c \in 1..MaxTriggers : ReadListing(c)
  \/ \E c \in 1..MaxTriggers : Finish(c)

DriverSpec == DInit /\ [][DNext]_vars

\* the driver with the scheduling of timers: time passes for a pending
\* timer, and a timer that is due fires unless it is cleared
FairDriverSpec ==
  /\ DInit /\ [][DNext]_vars
  /\ WF_vars(Tick)
  /\ \A c \in 1..MaxTriggers : WF_vars(TimerFires(c))


(***************************************************************************)
(* Properties of the parser and the assembler.                             *)
(***************************************************************************)
\* C1: segment gating: an instruction line is added to the mapping only if
\* in_text (in_code_segment) is true when the line is processed.
C1_SegmentGating ==
  [][state'.line_content # state.line_content => state.in_text]_vars

\* C2: file-boundary gating: an instruction line is added to the mapping
\* only if the most recent '; File ' line before it names tmppath, and a
\* '; File ' line naming another file leaves in_file and in_text false and
\* current_line 0.
C2_FileBoundaryGating ==
  [][/\ state'.line_content # state.line_content => last_file = "target"
     /\ last_file' = "other" =>
          /\ ~state'.in_file
          /\ ~state'.in_text
          /\ state'.current_line = 0]_vars

\* C2: an instruction line was read after a '; File ' line naming another
\* file and was not collected, with entries of the target file in the mapping
C2_Witness ==
  /\ last_file = "other"
  /\ last_insn = "dropped"
  /\ state.line_content # <<>>

\* C3: duplicate directives: once line L has an entry, a later directive for
\* L sets current_line to 0 and what follows it is dropped; an entry whose
\* block has ended (current_line has moved off L) never changes again and
\* current_line never returns to L, so at the end accumulated[L] is the
\* block collected under the first directive.
C3_DuplicateDirective ==
  [][/\ last_dir' \in {"duplicate", "both"} =>
          /\ state'.current_line = 0
          /\ state'.line_content = state.line_content
     /\ \A L \in MapKeys(state.line_content) :
          state.current_line # L =>
            /\ state'.current_line # L
            /\ MapHas(state'.line_content, L)
            /\ MapGet(state'.line_content, L) = MapGet(state.line_content, L)]_vars

\* C3: in the target file, a second directive for a line that has an entry
\* was read and the instruction after it was dropped
C3_Witness ==
  /\ state.in_file
  /\ last_dir = "duplicate"
  /\ last_insn = "dropped"

\* C4: out-of-range directives: a directive whose number is greater than
\* doc.lineCount creates no entry and sets current_line to 0, and nothing is
\* collected until the next line-number directive.
C4_OutOfRangeDirective ==
  [][last_dir' \in {"range", "both"} =>
       /\ state'.current_line = 0
       /\ state'.line_content = state.line_content]_vars

\* C4: in the target file, an instruction was read after an out-of-range
\* directive and dropped
C4_Witness ==
  /\ state.in_file
  /\ last_dir = "range"
  /\ last_insn = "dropped"

\* C5: ordering and uniqueness: the returned entries are strictly ascending
\* by line.
C5_StrictlyAscending ==
  pc = "done" =>
    \A i \in 1..Len(result.value) : \A j \in 1..Len(result.value) :
      i < j => result.value[i].line < result.value[j].line

\* C5: the parser found two lines in descending order and the call returned
C5_Witness ==
  /\ pc = "done"
  /\ Len(state.line_content) >= 2
  /\ state.line_content[1].key > state.line_content[2].key

\* C9: clamping: the index lineAt is given is never outside the document,
\* neither for the entry's code nor for its decoration; a line number up to
\* the last line resolves to that line, and one beyond the document to the
\* last line.
C9_Clamping ==
  /\ pc # "threw"
  /\ pc = "done" =>
       /\ \A i \in 1..Len(result.value) :
            LET e == result.value[i]
            IN  /\ e.code # OutOfBounds
                /\ e.line <= Len(doc) => e.code = doc[e.line]
                /\ e.line >= Len(doc) => e.code = doc[Len(doc)]
       /\ \A i \in 1..Len(decorations) :
            decorations[i].range \in 0..(Len(doc) - 1)

\* C9: the call returned an entry for the last line of the document and one
\* for a line beyond it (the document shrank during the parse)
C9_Witness ==
  /\ pc = "done"
  /\ \E i \in 1..Len(result.value) : result.value[i].line > Len(doc)
  /\ \E i \in 1..Len(result.value) : result.value[i].line = Len(doc)

\* C10 as stated: a parse that read a malformed directive in the target
\* file returns no mapping.
C10_MalformedAborts == saw_malformed => pc # "done"

\* C10 amended: a ';' line of the target file whose number is not a string
\* of digits is skipped as a comment: reading it changes nothing of the
\* parser state and the parse goes on.
C10_MalformedSkipped ==
  [][(~saw_malformed /\ saw_malformed') => (state' = state /\ pc' = "reading")]_vars

\* C10: a parse that read a malformed directive returned a mapping with an
\* entry
C10_Witness ==
  /\ saw_malformed
  /\ pc = "done"
  /\ result.value # <<>>

\* C12: while the listing has had no '; File ' line naming tmppath (an empty
\* listing included), the mapping is empty, and the call that ends so returns
\* the empty sequence, a result that is neither null nor an error, which is
\* published.
C12_EmptyListing ==
  ~saw_target =>
    /\ state.line_content = <<>>
    /\ pc \notin {"reading", "read_error"} =>
         /\ pc = "done"
         /\ result = Some(<<>>)
         /\ result # Null
         /\ listing = Some(<<>>)
         /\ decorations = <<>>

\* a call has returned from a listing that never named tmppath and whose
\* last line was an instruction
C12_Witness ==
  /\ ~saw_target
  /\ pc = "done"
  /\ last_insn = "dropped"
  /\ last_dir # "none"

\* C14: the palette has 8 colours, and every entry of a returned listing has
\* the colour palette[(line * 11) mod 8], whatever other lines the listing
\* holds; the class the view gives the entry's assembly lines has that same
\* palette index, and so the same colour, as has the entry's decoration.
C14_ColorStability ==
  /\ Len(COLORS) = 8
  /\ pc = "done" =>
       \A i \in 1..Len(result.value) :
         LET item == result.value[i]
             k == (item.line * 11) % 8
         IN  /\ item.color = COLORS[k + 1]
             /\ cls(item) = k
             /\ classes[cls(item)] = item.color
             /\ decorations[i].backgroundColor = item.color

\* a returned listing of two entries, of different colours
C14_Witness ==
  /\ pc = "done"
  /\ Len(result.value) >= 2
  /\ result.value[1].color # result.value[2].color

\* C15 as claimed: a segment close read in the target file leaves in_file
\* set.
C15_CloseKeepsFile ==
  [][last_kind' = "close" => state'.in_file]_vars

\* C15 as amended: a segment close read in the target file clears in_file
\* and in_text and sets current_line to none, and changes nothing of the
\* mapping; while in_file is clear no line adds to the mapping, whatever the
\* last '; File ' line named.
C15_CloseLeavesFile ==
  [][/\ last_kind' = "close" =>
          /\ ~state'.in_file
          /\ ~state'.in_text
          /\ state'.current_line = 0
          /\ state'.line_content = state.line_content
     /\ ~state.in_file => state'.line_content = state.line_content]_vars

\* after a block of the target file was collected and closed, an instruction
\* was read, and dropped, with no '; File ' line since the close
C15_Witness ==
  /\ last_file = "target"
  /\ ~state.in_file
  /\ state.line_content # <<>>
  /\ last_insn = "dropped"
  /\ last_dir # "none"

\* C16 as claimed: in the target file, every non-blank line without a
\* leading tabstop that is no '; File ' line, segment marker or line-number
\* directive, a ';' comment included, sets current_line to none.
C16_NonIndentedResets ==
  [][last_kind' \in {"comment", "text"} => state'.current_line = 0]_vars

\* C16 as amended: in the target file, such a line that does not start with
\* ';' sets current_line to none and changes nothing else; one that starts
\* with ';' changes nothing, so instructions after it are still collected
\* under the current line.
C16_TextResets ==
  [][/\ last_kind' = "text" =>
          state' = [state EXCEPT !.current_line = 0]
     /\ last_kind' = "comment" => state' = state]_vars

\* an unindented line of text was read in the target file after a directive
\* had opened a line, with nothing collected
C16_Witness ==
  /\ last_kind = "text"
  /\ state.in_file
  /\ last_dir = "new"
  /\ state.current_line = 0
  /\ state.line_content = <<>>

\* C17: first occurrence wins, for source line 1: every instruction line of
\* the entry of line 1 is collected under the first line-number directive
\* for line 1 read in the target file, never after a later one.
C17_FirstOccurrenceWins ==
  [][asm_lines(state'.line_content, 1) # asm_lines(state.line_content, 1)
       => first_epoch' = "active"]_vars

\* C18: in every state of a parse, every key of the mapping is a line of the
\* document, 1 .. lineCount, and has at least one instruction line, and
\* current_line is none or a line of the document.
C18_KeyRange ==
  /\ \A i \in 1..Len(state.line_content) :
       /\ state.line_content[i].key \in 1..Len(doc)
       /\ state.line_content[i].asms # <<>>
  /\ state.current_line \in 0..Len(doc)

(***************************************************************************)
(* Properties of the driver.                                               *)
(***************************************************************************)
\* C6: stale results are ignored: whenever a result is published, it is the
\* result of the most recent call of _debounce.
C6_StaleResultsIgnored ==
  [][published_by' # published_by => published_by' = ntrig']_vars

\* C7: at most one correlation in flight: at most one started call of
\* _decorateMSVC has not returned.
C7_AtMostOneInFlight == Cardinality(InFlight) <= 1

\* C8: every published entry's code is the text that line had in the content
\* its call wrote to tmppath and compiled.
C8_SourceTextAsCompiled ==
  published_by # 0 =>
    \A i \in 1..Len(listing.value) :
      LET e == listing.value[i]
          text == corr[published_by].text
      IN  e.line <= Len(text) => e.code = text[e.line]


\* C11: compile failure: a call whose cl.exe returned a non-zero exit code
\* returns null without ever reading or parsing the listing, and publishes
\* nothing; the step on which cl.exe fails sets the status message to
\* 'Compile error' and leaves the published listing and the decorations as
\* they were.
C11_CompileFailure ==
  [][\A c \in 1..MaxTriggers :
       /\ corr'[c].retc = 1 =>
            /\ corr'[c].phase = "null"
            /\ corr'[c].asm = <<>>
            /\ corr'[c].lc = <<>>
            /\ published_by' # c
       /\ corr[c].retc = -1 /\ corr'[c].retc = 1 =>
            /\ statusMessage' = "Compile error"
            /\ listing' = listing
            /\ decorations' = decorations]_vars

\* cl.exe has failed for a call after the listing of an earlier call was
\* published, and that listing is still the published one
C11_Witness ==
  \E c \in 1..MaxTriggers :
    /\ corr[c].retc = 1
    /\ statusMessage = "Compile error"
    /\ published_by \notin {0, c}
    /\ listing # Null
    /\ listing.value # <<>>


C19_Coalescing ==
  /\ [][\A c \in 1..MaxTriggers :
          /\ corr'[c].phase = "timer" => c = ntrig'
          /\ corr[c].phase = "timer" /\ ntrig' # ntrig => corr'[c].phase = "cleared"
          /\ corr[c].phase = "cleared" =>
               /\ corr'[c].phase = "cleared"
               /\ published_by' # c
          /\ corr[c].phase = "timer" /\ corr'[c].phase \notin {"timer", "cleared"} =>
               /\ corr[c].age >= 1000
               /\ c = ntrig
               /\ corr'[c].phase \in {"compiling", "elsewhere"}]_vars
  /\ \A c \in 1..MaxTriggers :
       (corr[c].phase = "timer") ~> (corr[c].phase # "timer")

\* the timer of the first call was cleared by the second call before it had
\* run for its delay, and the second call has run its action and published
C19_Witness ==
  /\ corr[1].phase = "cleared"
  /\ corr[1].age < 1000
  /\ corr[2].phase = "applied"
  /\ published_by = 2


\* C20: no lost trigger: the pending correlation of a document is cancelled
\* only by a later trigger for the same document, never by a trigger for
\* another document.
C20_NoLostTrigger ==
  [][\A c \in 1..MaxTriggers :
       corr[c].phase = "timer" /\ corr'[c].phase = "cleared" =>
         corr'[ntrig'].file = corr[c].file]_vars


\* C21: working-directory restoration: once every correlation that has
\* started has completed, the working directory of the process is the one
\* it had before the first correlation started.
C21_CwdRestored ==
  (\A c \in 1..MaxTriggers :
     corr[c].phase \in {"none", "timer", "cleared", "null", "applied", "threw",
                        "returned"})
    => cwd = StartDir

=============================================================================
